---- MODULE Spec2Model ----
(***************************************************************************)
(* Opportunity discovery pipeline of the AI hedge fund backend:            *)
(*   app/backend/routes/opportunities.py  (scan route, background scan,    *)
(*                                         ranking cache)                  *)
(*   src/agents/stock_screener.py         (screen_stock, scan_opportunities*)
(*                                         scoring, signal generation)     *)
(*                                                                         *)
(* The server is one asyncio event loop.  A coroutine keeps the loop until *)
(* it reaches an await that suspends; `running` names the work unit that   *)
(* holds the loop.  Numbers are integers; overall scores are kept doubled  *)
(* (overall2 = technical + fundamental) so that x.5 scores stay exact, and *)
(* debt/equity is kept as the pair (total_debt, reserves).                 *)
(***************************************************************************)
EXTENDS Integers, Sequences, FiniteSets, TLC

VARIABLES
    scanInProgress,   \* _scan_in_progress
    lastScanTime,     \* _last_scan_time (None until a scan has completed)
    cache,            \* _opportunities_cache
    now,              \* wall clock, seconds
    tasks,            \* background scan tasks, one record per task slot
    analysis,         \* the /analyze/{ticker} request being served
    running,          \* work unit holding the event loop, or Idle
    scanRequests,     \* number of GET /scan requests handled so far
    response,         \* response of the latest GET /scan request
    exchange,         \* environment: how many candidates the universe builder can yield
    fundPool,         \* environment: responses get_fundamentals can give
    pricePool,        \* environment: outcomes get_price_data can give
    probe,            \* a call of one of the screener's functions: arguments, then result
    limiter,          \* _screener_lock, _last_screener_request and the callers of _rate_limited_get
    answer,           \* response of the latest result query (GET /list, GET /top)
    fundamentals_cache \* FUNDAMENTALS_CACHE_DIR: the cached fundamentals, by ticker and view

vars == <<scanInProgress, lastScanTime, cache, now, tasks, analysis, running,
          scanRequests, response, exchange, fundPool, pricePool, probe, limiter, answer, fundamentals_cache>>

-----------------------------------------------------------------------------
(* Bounds of the model *)

\* distinct contents the provider's page of a company can have
MaxPages == 2

MaxScans == 2
MaxRequests == 2
MaxClock == 300
MaxUniverse == 1
MaxScreenUniverse == 3
MaxGateUniverse == 6
MaxStocksArg == 6
Extreme == 100000
MaxFilterStocks == 2
MaxCallers == 2          \* threads calling get_fundamentals
MaxCalls == 3            \* provider requests sent in one behaviour
MaxRateClock == 6        \* the latest reading of time.time(), in ticks
TicksPerSecond == 2      \* resolution of time.time() in the model
MaxSectorSize == 30      \* equity stocks of one sector in a listing

(* Program constants *)

None == -999999
NaN == -777777
NoObject == [none |-> TRUE]
FreshnessWindow == 300
GateLimit == 5
MinMaxStocks == 5
DefaultRevenueGrowth == 10
RsiWindow == 14
VolumeWindow == 20
TrendWindow == 50
MarketCapMin == 500
MarketCapMax == 50000
FinalSelectionSize == 50
FallbackPerSector == 3
MinPerSector == 10
DiversityTarget == 200
TechSampleSize == 100
TechBackfill == 30

\* the clock is observed twice per freshness window
TickStep == FreshnessWindow \div 2

Idle == <<0, 0>>
TaskIds == 1..MaxScans

-----------------------------------------------------------------------------
(* Provider data *)

\* A get_fundamentals response: a key the scraper did not find is None.
FundResponse(err, price, pe, mcap, roe, debt, reserves) ==
    [error |-> err, price |-> price, pe_ratio |-> pe, market_cap |-> mcap,
     roe |-> roe, total_debt |-> debt, reserves |-> reserves]

RespError    == FundResponse(TRUE, None, None, None, None, None, None)
RespNoPE     == FundResponse(FALSE, 100, None, 1000, 22, 10, 100)
RespNoPrice  == FundResponse(FALSE, None, 15, 1000, 22, 10, 100)
RespZeroPE   == FundResponse(FALSE, 100, 0, 1000, 22, 10, 100)
RespNoCap    == FundResponse(FALSE, 100, 15, None, 22, 10, 100)
RespFull     == FundResponse(FALSE, 100, 15, 1000, 22, 20, 100)
RespWeak     == FundResponse(FALSE, 50, 35, 800, 5, 200, 100)
RespBare     == FundResponse(FALSE, 100, 15, 1000, None, None, None)

AllFundResponses ==
    {RespError, RespNoPE, RespNoPrice, RespZeroPE, RespNoCap, RespFull, RespWeak, RespBare}
SmallFundResponses == {RespError, RespFull}

\* A price frame: the number of daily bars, the course of the closing prices
\* (rising or falling by one unit a bar, or flat), whether the frame holds a
\* close column, and its volume column: absent, steady (every bar 100), swell
\* (the last bar 152), surge (the last bar 200), or holding text.
Frame(bars, shape, close, volume) ==
    [bars |-> bars, shape |-> shape, close |-> close, volume |-> volume]

\* pd.DataFrame()
EmptyFrame == Frame(0, "rising", FALSE, "absent")

\* a fallback with the RSI at zero
FallbackIndicatorsRsiZero ==
    [rsi |-> 0, macd_signal |-> "NEUTRAL", moving_avg_trend |-> "NEUTRAL", volume_surge |-> FALSE]

\* the fallback indicators
NeutralIndicators ==
    [rsi |-> 50, macd_signal |-> "NEUTRAL", moving_avg_trend |-> "NEUTRAL", volume_surge |-> FALSE]
StrongIndicators ==
    [rsi |-> 25, macd_signal |-> "BULLISH", moving_avg_trend |-> "UPTREND", volume_surge |-> TRUE]
WeakIndicators ==
    [rsi |-> 80, macd_signal |-> "BEARISH", moving_avg_trend |-> "DOWNTREND", volume_surge |-> FALSE]

\* Outcome of get_price_data: the call raises, or returns a frame.
PriceRaises == [kind |-> "raise", frame |-> EmptyFrame]
PriceEmpty  == [kind |-> "frame", frame |-> EmptyFrame]
PriceStrong == [kind |-> "frame", frame |-> Frame(60, "rising", TRUE, "surge")]
PriceWeak   == [kind |-> "frame", frame |-> Frame(60, "falling", TRUE, "steady")]

AllPriceOutcomes == {PriceRaises, PriceEmpty, PriceStrong, PriceWeak}
SmallPriceOutcomes == {PriceEmpty, PriceRaises}

-----------------------------------------------------------------------------
(* stock_screener.py: pure functions *)

Max(a, b) == IF a >= b THEN a ELSE b
Min(a, b) == IF a <= b THEN a ELSE b

\* Python truthiness of fundamentals.get(key): a missing key and 0 are falsy.
Falsy(v) == v = None \/ v = 0

\* dict.get(key, default)
GetOr(v, default) == IF v = None THEN default ELSE v

\* the price left unchecked
FundamentalsUsableWithoutPrice(resp) ==
    /\ ~resp.error
    /\ ~Falsy(resp.pe_ratio)

\* the two validity checks of get_fundamental_metrics
FundamentalsUsable(resp) ==
    /\ ~resp.error
    /\ ~(Falsy(resp.pe_ratio) \/ Falsy(resp.price))

\* float(market_cap) raises on a missing market cap; the except clause returns None
ConversionRaises(resp) == resp.market_cap = None

\* the deprecated behaviour: made-up metrics where the provider gave none
get_fundamental_metrics_with_fallback(resp) ==
    [pe_ratio |-> IF Falsy(resp.pe_ratio) THEN 20 ELSE resp.pe_ratio,
     debt_to_equity |-> <<1, 2>>,
     roe |-> GetOr(resp.roe, 15),
     revenue_growth |-> DefaultRevenueGrowth,
     market_cap |-> GetOr(resp.market_cap, 1000),
     price |-> IF Falsy(resp.price) THEN 100 ELSE resp.price,
     sector |-> "Unknown"]

\* get_fundamental_metrics: None (NoObject), or the metrics dict
get_fundamental_metrics(resp) ==
    IF ~FundamentalsUsable(resp) \/ ConversionRaises(resp)
    THEN NoObject
    ELSE LET total_debt == GetOr(resp.total_debt, 0)
             reserves   == GetOr(resp.reserves, 0)
         IN [pe_ratio |-> resp.pe_ratio,
             debt_to_equity |-> IF reserves > 0 THEN <<total_debt, reserves>> ELSE <<0, 1>>,
             roe |-> GetOr(resp.roe, 0),
             revenue_growth |-> DefaultRevenueGrowth,
             market_cap |-> resp.market_cap,
             price |-> resp.price,
             sector |-> "Unknown"]

\* screen_stock: the frame handed to the indicator engine; a fetch that raises
\* is replaced by the empty frame
PriceFrame(outcome) == IF outcome.kind = "raise" THEN EmptyFrame ELSE outcome.frame

\* RSI(14) of the last bar: the 14-bar rolling means of gains and losses exist
\* from the 14th bar on; gains without losses give 100, losses without gains 0,
\* neither gains nor losses 0/0
RsiOf(frame) ==
    IF frame.bars < RsiWindow \/ frame.shape = "flat" THEN NaN
    ELSE IF frame.shape = "rising" THEN 100 ELSE 0

\* MACD(12,26,9) against its signal line, on the last bar (back = 0) or the one
\* before it (back = 1): both are 0 on the first bar and on a flat series
MacdAgainstSignal(frame, back) ==
    IF frame.shape = "flat" \/ frame.bars - back <= 1 THEN "equal"
    ELSE IF frame.shape = "rising" THEN "above" ELSE "below"

\* the MACD classification
MacdOf(frame) ==
    LET last == MacdAgainstSignal(frame, 0)
        previous == MacdAgainstSignal(frame, 1)
    IN IF frame.bars < 2 THEN "NEUTRAL"
       ELSE IF last = "above" /\ previous # "above" THEN "BULLISH_CROSSOVER"
       ELSE IF last = "below" /\ previous # "below" THEN "BEARISH_CROSSOVER"
       ELSE IF last = "above" THEN "BULLISH"
       ELSE "BEARISH"

\* last close against the 20- and 50-bar averages
TrendOf(frame) ==
    IF frame.bars < TrendWindow \/ frame.shape = "flat" THEN "NEUTRAL"
    ELSE IF frame.shape = "rising" THEN "STRONG_UPTREND" ELSE "STRONG_DOWNTREND"

\* the volume of the last bar, or of an earlier bar
VolumeOfBar(volume, latest) ==
    IF ~latest THEN 100
    ELSE CASE volume = "swell" -> 152
           [] volume = "surge" -> 200
           [] OTHER -> 100

\* current_volume > avg_volume.iloc[-1] * 1.5, the average being the mean of the
\* last 20 bars, the current bar among them
VolumeSurgeOf(frame) ==
    /\ frame.volume # "absent"
    /\ frame.bars >= VolumeWindow
    /\ LET current_volume == VolumeOfBar(frame.volume, TRUE)
           window_sum == (VolumeWindow - 1) * VolumeOfBar(frame.volume, FALSE) + current_volume
       IN 2 * VolumeWindow * current_volume > 3 * window_sum

\* the sub-computation raises: a missing close column, a volume column of text
IndicatorRaises(part, frame) ==
    CASE part = "rsi" -> ~frame.close
      [] part = "macd" -> ~frame.close
      [] part = "trend" -> frame.bars >= TrendWindow /\ ~frame.close
      [] part = "volume" -> frame.volume = "text" /\ frame.bars >= VolumeWindow

IndicatorParts == {"rsi", "macd", "trend", "volume"}

\* calculate_technical_indicators: the fallback on an empty frame and on an
\* exception anywhere in the one try block, else the four indicators
calculate_technical_indicators(price_data) ==
    IF price_data.bars = 0 THEN NeutralIndicators
    ELSE IF \E part \in IndicatorParts : IndicatorRaises(part, price_data)
         THEN NeutralIndicators
         ELSE [rsi |-> RsiOf(price_data),
               macd_signal |-> MacdOf(price_data),
               moving_avg_trend |-> TrendOf(price_data),
               volume_surge |-> VolumeSurgeOf(price_data)]

\* technical_data.get(key, default): the value under key, or default without the key
Get(d, key, default) == IF key \in DOMAIN d THEN d[key] ELSE default

\* a float that is not a number: every comparison with it is false
Below(x, y) == x # NaN /\ x < y
Above(x, y) == x # NaN /\ x > y
Within(lo, x, hi) == x # NaN /\ lo <= x /\ x <= hi

Bullish == {"BULLISH_CROSSOVER", "BULLISH"}
Bearish == {"BEARISH_CROSSOVER", "BEARISH"}
Uptrend == {"STRONG_UPTREND", "UPTREND"}
Downtrend == {"STRONG_DOWNTREND", "DOWNTREND"}

\* the scores left as summed
ClampOmitted(x) == x

\* max(0, min(100, score))
Clamp(x) == Max(0, Min(100, x))

\* technical score before the bounds are applied
RawTechnicalScore(t) ==
    LET rsi == Get(t, "rsi", 50)
        macd == Get(t, "macd_signal", "NEUTRAL")
        ma_trend == Get(t, "moving_avg_trend", "NEUTRAL")
    IN 50
       + (IF Within(30, rsi, 70) THEN 20
          ELSE IF Below(rsi, 30) THEN 15
          ELSE IF Above(rsi, 70) THEN -15 ELSE 0)
       + (IF macd \in Bullish THEN 15 ELSE IF macd \in Bearish THEN -15 ELSE 0)
       + (IF ma_trend \in Uptrend THEN 15 ELSE IF ma_trend \in Downtrend THEN -15 ELSE 0)
       + (IF Get(t, "volume_surge", FALSE) THEN 10 ELSE 0)

TechnicalScore(t) == Clamp(RawTechnicalScore(t))

\* debt/equity n/d (d > 0) against 0.3 and 1.0
DebtBelow03(de) == 10 * de[1] < 3 * de[2]
DebtAbove1(de) == de[1] > de[2]

\* fundamental score before the bounds are applied
RawFundamentalScore(f) ==
    LET pe == Get(f, "pe_ratio", 20)
        roe == Get(f, "roe", 15)
        de == Get(f, "debt_to_equity", <<1, 2>>)
        growth == Get(f, "revenue_growth", 10)
    IN 50
       + (IF 10 <= pe /\ pe <= 20 THEN 20
          ELSE IF pe < 10 THEN 15
          ELSE IF pe > 30 THEN -15 ELSE 0)
       + (IF roe > 20 THEN 20
          ELSE IF roe > 15 THEN 10
          ELSE IF roe < 10 THEN -10 ELSE 0)
       + (IF DebtBelow03(de) THEN 15 ELSE IF DebtAbove1(de) THEN -15 ELSE 0)
       + (IF growth > 20 THEN 15
          ELSE IF growth > 10 THEN 10
          ELSE IF growth < 5 THEN -10 ELSE 0)

FundamentalScore(f) == Clamp(RawFundamentalScore(f))

\* the mean taken of the summed scores, the bounds applied to the mean
calculate_ai_scores_mean_then_clamp(t, f) ==
    [technical_score |-> Clamp(RawTechnicalScore(t)),
     fundamental_score |-> Clamp(RawFundamentalScore(f)),
     overall2 |-> Max(0, Min(200, RawTechnicalScore(t) + RawFundamentalScore(f)))]

\* calculate_ai_scores; the overall score is returned doubled
calculate_ai_scores(t, f) ==
    [technical_score |-> TechnicalScore(t),
     fundamental_score |-> FundamentalScore(f),
     overall2 |-> TechnicalScore(t) + FundamentalScore(f)]

\* the thresholds taken as strict
SignalOfStrictThresholds(overall2) ==
    IF overall2 > 160 THEN "STRONG_BUY"
    ELSE IF overall2 > 130 THEN "BUY"
    ELSE IF overall2 > 70 THEN "HOLD"
    ELSE IF overall2 > 40 THEN "SELL"
    ELSE "STRONG_SELL"

\* generate_signal_and_reasoning: signal from the (doubled) overall score
SignalOf(overall2) ==
    IF overall2 >= 160 THEN "STRONG_BUY"
    ELSE IF overall2 >= 130 THEN "BUY"
    ELSE IF overall2 >= 70 THEN "HOLD"
    ELSE IF overall2 >= 40 THEN "SELL"
    ELSE "STRONG_SELL"

\* confidence, in tenths
ConfidenceOf(overall2) ==
    IF overall2 >= 160 THEN 9
    ELSE IF overall2 >= 130 THEN 7
    ELSE IF overall2 >= 70 THEN 5
    ELSE IF overall2 >= 40 THEN 7
    ELSE 9

\* the entry appended when the condition holds
Reason(condition, text) == IF condition THEN <<text>> ELSE <<>>

\* the oversold reason given at the scoring threshold
BuyReasonsOversoldAt30(t, f) ==
    Reason(Below(Get(t, "rsi", 50), 30), "oversold")
    \o Reason(Get(t, "macd_signal", "NEUTRAL") \in Bullish, "macd_bullish")
    \o Reason(Get(t, "moving_avg_trend", "NEUTRAL") \in Uptrend, "uptrend")
    \o Reason(Get(t, "volume_surge", FALSE), "volume_surge")
    \o Reason(Get(f, "pe_ratio", 20) < 15, "low_pe")
    \o Reason(Get(f, "roe", 15) > 18, "strong_roe")
    \o Reason(Get(f, "revenue_growth", 10) > 15, "revenue_growth")

BuyReasons(t, f) ==
    Reason(Below(Get(t, "rsi", 50), 35), "oversold")
    \o Reason(Get(t, "macd_signal", "NEUTRAL") \in Bullish, "macd_bullish")
    \o Reason(Get(t, "moving_avg_trend", "NEUTRAL") \in Uptrend, "uptrend")
    \o Reason(Get(t, "volume_surge", FALSE), "volume_surge")
    \o Reason(Get(f, "pe_ratio", 20) < 15, "low_pe")
    \o Reason(Get(f, "roe", 15) > 18, "strong_roe")
    \o Reason(Get(f, "revenue_growth", 10) > 15, "revenue_growth")

RiskFactors(t, f) ==
    Reason(Above(Get(t, "rsi", 50), 75), "overbought")
    \o Reason(DebtAbove1(Get(f, "debt_to_equity", <<1, 2>>)), "high_debt")
    \o Reason(Get(f, "pe_ratio", 20) > 25, "high_pe")
    \o Reason(Get(f, "revenue_growth", 10) < 5, "slow_growth")

\* generate_signal_and_reasoning; prices are returned in hundredths
generate_signal_and_reasoning(t, f, overall2, current_price) ==
    LET signal == SignalOf(overall2) IN
    [signal |-> signal,
     confidence |-> ConfidenceOf(overall2),
     buy_reasons |-> BuyReasons(t, f),
     risk_factors |-> RiskFactors(t, f),
     target_price |-> IF signal \in {"STRONG_BUY", "BUY"} THEN 115 * current_price
                                                         ELSE 95 * current_price,
     stop_loss |-> IF signal \in {"STRONG_BUY", "BUY"} THEN 92 * current_price
                                                       ELSE 105 * current_price]

\* the StockOpportunity assembled by screen_stock
MakeOpportunity(ticker, t, f) ==
    LET s == calculate_ai_scores(t, f) IN
    [ticker |-> ticker,
     current_price |-> f.price,
     market_cap |-> f.market_cap,
     sector |-> f.sector,
     rsi |-> t.rsi,
     macd_signal |-> t.macd_signal,
     moving_avg_trend |-> t.moving_avg_trend,
     volume_surge |-> t.volume_surge,
     pe_ratio |-> f.pe_ratio,
     debt_to_equity |-> f.debt_to_equity,
     roe |-> f.roe,
     revenue_growth |-> f.revenue_growth,
     technical_score |-> s.technical_score,
     fundamental_score |-> s.fundamental_score,
     overall2 |-> s.overall2,
     signal |-> SignalOf(s.overall2)]

\* a sort that puts the later of two equal scores first
InsertByScoreTiesReversed(opp, sorted) ==
    SelectSeq(sorted, LAMBDA other : other.overall2 > opp.overall2)
    \o <<opp>>
    \o SelectSeq(sorted, LAMBDA other : other.overall2 <= opp.overall2)

\* opportunities.sort(key=overall_score, reverse=True): stable, descending
RECURSIVE InsertByScore(_, _)
InsertByScore(opp, sorted) ==
    IF sorted = <<>> THEN <<opp>>
    ELSE IF Head(sorted).overall2 >= opp.overall2
         THEN <<Head(sorted)>> \o InsertByScore(opp, Tail(sorted))
         ELSE <<opp>> \o sorted

\* the list left in collection order
SortByScoreOmitted(opps) == opps

RECURSIVE SortByScore(_)
SortByScore(opps) ==
    IF opps = <<>> THEN <<>>
    ELSE LET n == Len(opps) IN InsertByScore(opps[n], SortByScore(SubSeq(opps, 1, n - 1)))

-----------------------------------------------------------------------------
(* State of tasks and work units *)

\* a candidate work unit (screen_with_semaphore / screen_stock)
PendingUnit == [pc |-> "pending", resp |-> NoObject, fd |-> NoObject, result |-> NoObject]
ResolvedUnit(result) == [pc |-> "done", resp |-> NoObject, fd |-> NoObject, result |-> result]

\* a _background_scan task
IdleTask ==
    [pc |-> "idle", max_stocks |-> 0, units |-> <<>>, sem |-> 0, ret |-> <<>>, outcome |-> "none"]
QueuedTask(max_stocks) == [IdleTask EXCEPT !.pc = "queued", !.max_stocks = max_stocks]

IdleAnalysis == [pc |-> "idle", resp |-> NoObject, fd |-> NoObject]
AnalysisUnit == <<0, 1>>

NoResponse == [status |-> "none", force_refresh |-> FALSE]

\* no function call under way
NoProbe == [op |-> "none"]

\* no result query served yet
NoAnswer == [query |-> "none"]

\* the cache files {ticker}_fundamentals_{suffix}.json: none written yet
Tickers == {"INFY", "TINYCO"}
CacheSuffixes == {"consolidated", "standalone"}
NoCacheFiles == [ticker \in Tickers |-> [suffix \in CacheSuffixes |-> NoObject]]

\* callers of _rate_limited_get and the state of its lock
Callers == 1..MaxCallers
Unlocked == 0

\* "at least 1s between successive calls", in ticks
MinSpacing == 1 * TicksPerSecond

\* module load: the lock is free and _last_screener_request = 0.0; time.time()
\* reads seconds since the epoch, far more than one second
LimiterAtRest ==
    [lock |-> Unlocked, last_request |-> 0, time |-> MinSpacing,
     pc |-> [c \in Callers |-> "idle"], wake |-> [c \in Callers |-> 0],
     calls |-> 0, start |-> None, previous |-> None, outcome |-> "none",
     after |-> "none"]

\* Query(ge=5, le=100) on max_stocks, within the bound of the model
StockLimits == MinMaxStocks..MaxStocksArg

FreeSlot(t) == tasks[t].pc \in {"idle", "done", "failed"}

\* the fetches awaited, as they would be with an asynchronous client
FetchYieldsAtAwait == TRUE

\* get_fundamental_metrics and get_price_data are plain blocking calls inside
\* screen_stock: the coroutine does not give up the event loop while it fetches.
FetchYields == FALSE

LoopAfterFetch(u) == IF FetchYields THEN Idle ELSE u
CanStart == running = Idle
CanContinue(u) == running = u \/ (FetchYields /\ running = Idle)

-----------------------------------------------------------------------------
(* opportunities.py: GET /opportunities/scan *)

\* force_refresh looked at before the in-progress flag
ScanStatusForceFirst(in_progress, force_refresh, last_scan, clock) ==
    IF force_refresh THEN "scan_started"
    ELSE IF in_progress THEN "scan_in_progress"
    ELSE IF last_scan # None /\ clock - last_scan < FreshnessWindow THEN "using_cache"
    ELSE "scan_started"

\* a cache exactly 300 seconds old still taken as fresh
ScanStatusInclusiveWindow(in_progress, force_refresh, last_scan, clock) ==
    IF in_progress THEN "scan_in_progress"
    ELSE IF ~force_refresh /\ last_scan # None /\ clock - last_scan <= FreshnessWindow
         THEN "using_cache"
         ELSE "scan_started"

\* the status scan_opportunities answers with
ScanStatus(in_progress, force_refresh, last_scan, clock) ==
    IF in_progress THEN "scan_in_progress"
    ELSE IF ~force_refresh /\ last_scan # None /\ clock - last_scan < FreshnessWindow
         THEN "using_cache"
         ELSE "scan_started"

ScanRequest(max_stocks, force_refresh) ==
    /\ CanStart
    /\ scanRequests < MaxRequests
    /\ LET status == ScanStatus(scanInProgress, force_refresh, lastScanTime, now) IN
        /\ response' = [status |-> status, force_refresh |-> force_refresh]
        /\ IF status = "scan_started"
           THEN \E t \in TaskIds :
                    /\ FreeSlot(t)
                    /\ \A s \in TaskIds : s < t => ~FreeSlot(s)
                    /\ tasks' = [tasks EXCEPT ![t] = QueuedTask(max_stocks)]
           ELSE tasks' = tasks
    /\ scanRequests' = scanRequests + 1
    /\ UNCHANGED <<scanInProgress, lastScanTime, cache, now, analysis, running,
                   exchange, fundPool, pricePool, probe, limiter, answer, fundamentals_cache>>

-----------------------------------------------------------------------------
(* opportunities.py: _background_scan, with stock_screener.scan_opportunities *)

\* the flag cleared on the normal path only
FlagAtExitWithoutFinally(raised) == raised

\* value of _scan_in_progress when _background_scan exits (the finally clause)
FlagAtExit(raised) == FALSE

\* stock_universe[:max_stocks] if longer than max_stocks
StocksToScreen(universe, max_stocks) == Min(universe, max_stocks)

\* _background_scan up to the await on asyncio.gather
ScanStart(t) ==
    /\ CanStart
    /\ tasks[t].pc = "queued"
    /\ scanInProgress' = TRUE
    /\ \E universe \in 0..exchange :
          LET n == StocksToScreen(universe, tasks[t].max_stocks) IN
          tasks' = [tasks EXCEPT ![t] =
                       [pc |-> "gather", max_stocks |-> 0,
                        units |-> [i \in 1..n |-> PendingUnit],
                        sem |-> GateLimit, ret |-> <<>>, outcome |-> "none"]]
    /\ UNCHANGED <<lastScanTime, cache, now, analysis, running, scanRequests, response,
                   exchange, fundPool, pricePool, probe, limiter, answer, fundamentals_cache>>

\* screen_with_semaphore: acquire the gate, enter screen_stock, call get_fundamentals
UnitStart(t, i) ==
    /\ CanStart
    /\ tasks[t].pc = "gather"
    /\ i \in 1..Len(tasks[t].units)
    /\ tasks[t].units[i].pc = "pending"
    /\ tasks[t].sem > 0
    /\ \E resp \in fundPool :
          tasks' = [tasks EXCEPT ![t].sem = @ - 1,
                                 ![t].units[i] = [PendingUnit EXCEPT !.pc = "fund", !.resp = resp]]
    /\ running' = LoopAfterFetch(<<t, i>>)
    /\ UNCHANGED <<scanInProgress, lastScanTime, cache, now, analysis, scanRequests, response,
                   exchange, fundPool, pricePool, probe, limiter, answer, fundamentals_cache>>

\* get_fundamental_metrics on the response; screen_stock returns None without it
UnitFundamentals(t, i) ==
    /\ CanContinue(<<t, i>>)
    /\ tasks[t].pc = "gather"
    /\ i \in 1..Len(tasks[t].units)
    /\ tasks[t].units[i].pc = "fund"
    /\ LET fd == get_fundamental_metrics(tasks[t].units[i].resp) IN
          IF fd = NoObject
          THEN /\ tasks' = [tasks EXCEPT ![t].sem = @ + 1, ![t].units[i] = ResolvedUnit(NoObject)]
               /\ running' = Idle
          ELSE /\ tasks' = [tasks EXCEPT ![t].units[i].pc = "price", ![t].units[i].fd = fd]
               /\ running' = LoopAfterFetch(<<t, i>>)
    /\ UNCHANGED <<scanInProgress, lastScanTime, cache, now, analysis, scanRequests, response,
                   exchange, fundPool, pricePool, probe, limiter, answer, fundamentals_cache>>

\* get_price_data, indicators, scores, signal, the StockOpportunity; release the gate
UnitPrice(t, i) ==
    /\ CanContinue(<<t, i>>)
    /\ tasks[t].pc = "gather"
    /\ i \in 1..Len(tasks[t].units)
    /\ tasks[t].units[i].pc = "price"
    /\ \E price_data \in pricePool :
          LET technical == calculate_technical_indicators(PriceFrame(price_data))
              opp == MakeOpportunity(i, technical, tasks[t].units[i].fd)
          IN tasks' = [tasks EXCEPT ![t].sem = @ + 1, ![t].units[i] = ResolvedUnit(opp)]
    /\ running' = Idle
    /\ UNCHANGED <<scanInProgress, lastScanTime, cache, now, analysis, scanRequests, response,
                   exchange, fundPool, pricePool, probe, limiter, answer, fundamentals_cache>>

\* the results of gather, in candidate order, that are StockOpportunity objects
RECURSIVE Successful(_)
Successful(units) ==
    IF units = <<>> THEN <<>>
    ELSE LET n == Len(units)
             before == Successful(SubSeq(units, 1, n - 1))
         IN IF units[n].result = NoObject THEN before ELSE Append(before, units[n].result)

AllResolved(units) == \A i \in 1..Len(units) : units[i].pc = "done"

\* the hit-rate log line divides by successful_screens
HitRateRaises(successful_screens) == successful_screens = 0

\* the timestamp left as it was when the list is replaced
TimestampLeftForLater(previous, clock) == previous

\* _last_scan_time = datetime.now(), right after the list is replaced
TimestampAtCompletion(previous, clock) == clock

\* gather has returned: collect, log, sort, return; then the rest of _background_scan
ScanCollect(t) ==
    /\ CanStart
    /\ tasks[t].pc = "gather"
    /\ AllResolved(tasks[t].units)
    /\ LET opportunities == Successful(tasks[t].units) IN
          IF HitRateRaises(Len(opportunities))
          THEN /\ tasks' = [tasks EXCEPT ![t] = [IdleTask EXCEPT !.pc = "failed", !.outcome = "scan_raised"]]
               /\ scanInProgress' = FlagAtExit(TRUE)
               /\ UNCHANGED <<cache, lastScanTime>>
          ELSE /\ tasks' = [tasks EXCEPT ![t] = [IdleTask EXCEPT !.pc = "done", !.outcome = "returned",
                                                           !.ret = SortByScore(opportunities)]]
               /\ cache' = SortByScore(opportunities)
               /\ lastScanTime' = TimestampAtCompletion(lastScanTime, now)
               /\ scanInProgress' = FlagAtExit(FALSE)
    /\ UNCHANGED <<now, analysis, running, scanRequests, response, exchange, fundPool, pricePool, probe, limiter, answer, fundamentals_cache>>

-----------------------------------------------------------------------------
(* opportunities.py: GET /opportunities/analyze/{ticker}: screen_stock outside the gate *)

AnalyzeStart ==
    /\ CanStart
    /\ analysis.pc = "idle"
    /\ \E resp \in fundPool :
          analysis' = [IdleAnalysis EXCEPT !.pc = "fund", !.resp = resp]
    /\ running' = LoopAfterFetch(AnalysisUnit)
    /\ UNCHANGED <<scanInProgress, lastScanTime, cache, now, tasks, scanRequests, response,
                   exchange, fundPool, pricePool, probe, limiter, answer, fundamentals_cache>>

AnalyzeFundamentals ==
    /\ CanContinue(AnalysisUnit)
    /\ analysis.pc = "fund"
    /\ LET fd == get_fundamental_metrics(analysis.resp) IN
          IF fd = NoObject
          THEN /\ analysis' = IdleAnalysis
               /\ running' = Idle
          ELSE /\ analysis' = [analysis EXCEPT !.pc = "price", !.fd = fd]
               /\ running' = LoopAfterFetch(AnalysisUnit)
    /\ UNCHANGED <<scanInProgress, lastScanTime, cache, now, tasks, scanRequests, response,
                   exchange, fundPool, pricePool, probe, limiter, answer, fundamentals_cache>>

AnalyzePrice ==
    /\ CanContinue(AnalysisUnit)
    /\ analysis.pc = "price"
    /\ \E price_data \in pricePool :
          LET technical == calculate_technical_indicators(PriceFrame(price_data))
              opp == MakeOpportunity(0, technical, analysis.fd)
          IN /\ opp.ticker = 0
             /\ analysis' = IdleAnalysis
    /\ running' = Idle
    /\ UNCHANGED <<scanInProgress, lastScanTime, cache, now, tasks, scanRequests, response,
                   exchange, fundPool, pricePool, probe, limiter, answer, fundamentals_cache>>

-----------------------------------------------------------------------------
(* the clock *)

Tick ==
    /\ CanStart
    /\ now + TickStep <= MaxClock
    /\ now' = now + TickStep
    /\ UNCHANGED <<scanInProgress, lastScanTime, cache, tasks, analysis, running,
                   scanRequests, response, exchange, fundPool, pricePool, probe, limiter, answer, fundamentals_cache>>

-----------------------------------------------------------------------------
(* Specifications *)

\* module state of opportunities.py after import
InitCache ==
    /\ scanInProgress = FALSE
    /\ lastScanTime = None
    /\ cache = <<>>
    /\ now = 0
    /\ analysis = IdleAnalysis
    /\ running = Idle
    /\ scanRequests = 0
    /\ response = NoResponse

\* the whole service: requests, background scans, analyses, the clock
Init ==
    /\ InitCache
    /\ probe = NoProbe
    /\ limiter = LimiterAtRest
    /\ answer = NoAnswer
    /\ fundamentals_cache = NoCacheFiles
    /\ tasks = [t \in TaskIds |-> IdleTask]
    /\ exchange = MaxUniverse
    /\ fundPool = SmallFundResponses
    /\ pricePool = SmallPriceOutcomes

ScanStep ==
    \/ \E t \in TaskIds : ScanStart(t)
    \/ \E t \in TaskIds : \E i \in 1..Len(tasks[t].units) : UnitStart(t, i)
    \/ \E t \in TaskIds : \E i \in 1..Len(tasks[t].units) : UnitFundamentals(t, i)
    \/ \E t \in TaskIds : \E i \in 1..Len(tasks[t].units) : UnitPrice(t, i)
    \/ \E t \in TaskIds : ScanCollect(t)

AnalyzeStep ==
    \/ AnalyzeStart
    \/ AnalyzeFundamentals
    \/ AnalyzePrice

Next ==
    \/ \E m \in StockLimits : \E f \in BOOLEAN : ScanRequest(m, f)
    \/ ScanStep
    \/ AnalyzeStep
    \/ Tick

Spec == Init /\ [][Next]_vars

\* one scan, already requested, over the full range of provider data
InitScreen ==
    /\ InitCache
    /\ probe = NoProbe
    /\ limiter = LimiterAtRest
    /\ answer = NoAnswer
    /\ fundamentals_cache = NoCacheFiles
    /\ \E m \in StockLimits :
          tasks = [t \in TaskIds |-> IF t = 1 THEN QueuedTask(m) ELSE IdleTask]
    /\ exchange = MaxScreenUniverse
    /\ fundPool = AllFundResponses
    /\ pricePool = AllPriceOutcomes

ScreenSpec == InitScreen /\ [][ScanStep]_vars

\* one scan over more candidates than the gate admits, with /analyze requests
InitGate ==
    /\ InitCache
    /\ probe = NoProbe
    /\ limiter = LimiterAtRest
    /\ answer = NoAnswer
    /\ fundamentals_cache = NoCacheFiles
    /\ \E m \in StockLimits :
          tasks = [t \in TaskIds |-> IF t = 1 THEN QueuedTask(m) ELSE IdleTask]
    /\ exchange = MaxGateUniverse
    /\ fundPool = SmallFundResponses
    /\ pricePool = SmallPriceOutcomes

NextGate == ScanStep \/ AnalyzeStep

GateSpec == InitGate /\ [][NextGate]_vars

\* requests and background scans alone
NextScan ==
    \/ \E m \in StockLimits : \E f \in BOOLEAN : ScanRequest(m, f)
    \/ ScanStep

\* the event loop runs every ready task; a provider call returns or raises
Progress == SF_vars(ScanStep)

FairSpec == Init /\ [][NextScan]_vars /\ Progress

-----------------------------------------------------------------------------
(* calculate_ai_scores and generate_signal_and_reasoning on their own *)

\* the service at rest while one of the screener's functions is called
InitQuiet ==
    /\ InitCache
    /\ tasks = [t \in TaskIds |-> IdleTask]
    /\ exchange = 0
    /\ fundPool = {}
    /\ pricePool = {}
    /\ limiter = LimiterAtRest
    /\ answer = NoAnswer
    /\ fundamentals_cache = NoCacheFiles

\* a dict holding the key with one of the values, or not holding it
Absent == [k \in {} |-> 0]
OptField(key, values) == {Absent} \cup {key :> v : v \in values}

RsiValues == {-Extreme, 0, 29, 30, 34, 35, 50, 70, 71, 75, 76, 100, Extreme, NaN}
MacdValues == {"BULLISH_CROSSOVER", "BEARISH_CROSSOVER", "BULLISH", "BEARISH", "NEUTRAL"}
TrendValues == {"STRONG_UPTREND", "UPTREND", "DOWNTREND", "STRONG_DOWNTREND", "NEUTRAL"}
PeValues == {-Extreme, 9, 10, 14, 15, 20, 21, 25, 26, 30, 31, Extreme}
RoeValues == {-Extreme, 9, 10, 15, 16, 18, 19, 20, 21, Extreme}
DebtValues == {<<0, 1>>, <<29, 100>>, <<3, 10>>, <<1, 1>>, <<101, 100>>, <<Extreme, 1>>}
GrowthValues == {-Extreme, 4, 5, 10, 11, 15, 16, 20, 21, Extreme}
CurrentPrices == {20, 100}

TechnicalSets ==
    {a @@ b @@ c @@ d :
        a \in OptField("rsi", RsiValues), b \in OptField("macd_signal", MacdValues),
        c \in OptField("moving_avg_trend", TrendValues), d \in OptField("volume_surge", BOOLEAN)}

FundamentalSets ==
    {a @@ b @@ c @@ d :
        a \in OptField("pe_ratio", PeValues), b \in OptField("roe", RoeValues),
        c \in OptField("debt_to_equity", DebtValues), d \in OptField("revenue_growth", GrowthValues)}

\* feature sets every technical set, and every fundamental set, is paired with
SomeTechnicalSets == {Absent, NeutralIndicators, StrongIndicators, WeakIndicators}
SomeFundamentalSets ==
    {Absent,
     [pe_ratio |-> 15, roe |-> 22, debt_to_equity |-> <<1, 5>>, revenue_growth |-> 25],
     [pe_ratio |-> 35, roe |-> 5, debt_to_equity |-> <<2, 1>>, revenue_growth |-> 2]}

FeaturePairs ==
    (TechnicalSets \X SomeFundamentalSets) \cup (SomeTechnicalSets \X FundamentalSets)

InitScore ==
    /\ InitQuiet
    /\ \E pair \in FeaturePairs : \E current_price \in CurrentPrices :
          probe = [op |-> "features", technical |-> pair[1], fundamental |-> pair[2],
                   current_price |-> current_price]

\* screen_stock: technical_score, fundamental_score, overall_score = calculate_ai_scores(...)
Score ==
    /\ probe.op = "features"
    /\ probe' = [op |-> "scored", technical |-> probe.technical,
                 fundamental |-> probe.fundamental, current_price |-> probe.current_price,
                 scores |-> calculate_ai_scores(probe.technical, probe.fundamental)]
    /\ UNCHANGED <<scanInProgress, lastScanTime, cache, now, tasks, analysis, running,
                   scanRequests, response, exchange, fundPool, pricePool, limiter, answer, fundamentals_cache>>

\* screen_stock: signal, confidence, ... = generate_signal_and_reasoning(...)
Signal ==
    /\ probe.op = "scored"
    /\ probe' = [op |-> "signalled", technical |-> probe.technical,
                 fundamental |-> probe.fundamental, current_price |-> probe.current_price,
                 scores |-> probe.scores,
                 advice |-> generate_signal_and_reasoning(probe.technical, probe.fundamental,
                                                          probe.scores.overall2,
                                                          probe.current_price)]
    /\ UNCHANGED <<scanInProgress, lastScanTime, cache, now, tasks, analysis, running,
                   scanRequests, response, exchange, fundPool, pricePool, limiter, answer, fundamentals_cache>>

NextScore == Score \/ Signal

ScoreSpec == InitScore /\ [][NextScore]_vars

-----------------------------------------------------------------------------
(* calculate_technical_indicators on its own *)

\* bar counts around the windows of the indicators
BarCounts == {0, 1, 2, 3, RsiWindow - 1, RsiWindow, VolumeWindow - 1, VolumeWindow,
              VolumeWindow + 1,
              TrendWindow - 1, TrendWindow, TrendWindow + 10}

Frames ==
    {Frame(bars, shape, close, volume) :
        bars \in BarCounts, shape \in {"rising", "falling", "flat"}, close \in BOOLEAN,
        volume \in {"absent", "steady", "swell", "surge", "text"}}

InitIndicators ==
    /\ InitQuiet
    /\ \E frame \in Frames : probe = [op |-> "frame", frame |-> frame]

\* screen_stock: technical_data = self.calculate_technical_indicators(ticker, price_data)
Indicators ==
    /\ probe.op = "frame"
    /\ probe' = [op |-> "indicators", frame |-> probe.frame,
                 result |-> calculate_technical_indicators(probe.frame)]
    /\ UNCHANGED <<scanInProgress, lastScanTime, cache, now, tasks, analysis, running,
                   scanRequests, response, exchange, fundPool, pricePool, limiter, answer, fundamentals_cache>>

IndicatorSpec == InitIndicators /\ [][Indicators]_vars

-----------------------------------------------------------------------------
(* _filter_by_market_metrics on its own *)

\* outcome of get_fundamentals inside the filter: the call raises, or answers
CapRaises == [kind |-> "raise", resp |-> RespError]
CapAnswer(resp) == [kind |-> "answer", resp |-> resp]
CapResponse(mcap) == FundResponse(FALSE, 100, 15, mcap, 22, 20, 100)

CapOutcomes ==
    {CapRaises, CapAnswer(RespError)}
        \cup {CapAnswer(CapResponse(mcap)) :
                 mcap \in {None, MarketCapMin - 1, MarketCapMin, MarketCapMin + 500,
                          MarketCapMax, MarketCapMax + 1}}

\* the stock goes into the filtered list
MarketCapKeeps(outcome) ==
    IF outcome.kind = "raise" THEN TRUE
    ELSE IF outcome.resp.error THEN TRUE
    ELSE LET market_cap == GetOr(outcome.resp.market_cap, 0)
         IN MarketCapMin <= market_cap /\ market_cap <= MarketCapMax

\* _filter_by_market_metrics: the positions of the stocks kept, in order
RECURSIVE filter_by_market_metrics(_)
filter_by_market_metrics(outcomes) ==
    IF outcomes = <<>> THEN <<>>
    ELSE LET n == Len(outcomes)
             before == filter_by_market_metrics(SubSeq(outcomes, 1, n - 1))
         IN IF MarketCapKeeps(outcomes[n]) THEN Append(before, n) ELSE before

StockLists == UNION {[1..n -> CapOutcomes] : n \in 0..MaxFilterStocks}

InitFilter ==
    /\ InitQuiet
    /\ \E outcomes \in StockLists : probe = [op |-> "stocks", outcomes |-> outcomes]

\* _apply_intelligent_filtering: the market-cap stage
FilterByMarketMetrics ==
    /\ probe.op = "stocks"
    /\ probe' = [op |-> "filtered", outcomes |-> probe.outcomes,
                 kept |-> filter_by_market_metrics(probe.outcomes)]
    /\ UNCHANGED <<scanInProgress, lastScanTime, cache, now, tasks, analysis, running,
                   scanRequests, response, exchange, fundPool, pricePool, limiter, answer, fundamentals_cache>>

FilterSpec == InitFilter /\ [][FilterByMarketMetrics]_vars

-----------------------------------------------------------------------------
(* zerodha_api: the pacing of requests to the fundamentals provider *)

\* wait = 1.0 - (now - _last_screener_request); time.sleep(wait) when wait > 0
WakeTime(time_now, last_request) ==
    LET wait == MinSpacing - (time_now - last_request)
    IN IF wait > 0 THEN time_now + wait ELSE time_now

LastRequestStamped(last_request, time_now) == time_now
\* _last_screener_request after requests.get raised: the assignment is skipped
LastRequestAfterRaise(last_request, time_now) == last_request

\* with _screener_lock: the caller takes the lock and reads the time
Enter(c) ==
    /\ limiter.pc[c] = "idle"
    /\ limiter.lock = Unlocked
    /\ limiter.calls < MaxCalls
    /\ limiter' = [limiter EXCEPT !.lock = c,
                                  !.pc[c] = "sleeping",
                                  !.wake[c] = WakeTime(limiter.time, limiter.last_request)]

\* requests.get is called once the sleep, if any, is over
Send(c) ==
    /\ limiter.pc[c] = "sleeping"
    /\ limiter.time >= limiter.wake[c]
    /\ limiter' = [limiter EXCEPT !.pc[c] = "requesting",
                                  !.calls = @ + 1,
                                  !.previous = limiter.start,
                                  !.after = limiter.outcome,
                                  !.start = limiter.time]

\* requests.get returns a response: the time is stamped and the lock released
Return(c) ==
    /\ limiter.pc[c] = "requesting"
    /\ limiter' = [limiter EXCEPT !.pc[c] = "idle",
                                  !.lock = Unlocked,
                                  !.outcome = "returned",
                                  !.last_request = LastRequestStamped(@, limiter.time)]

\* requests.get raises (timeout, connection error): the with block releases the lock
Raise(c) ==
    /\ limiter.pc[c] = "requesting"
    /\ limiter' = [limiter EXCEPT !.pc[c] = "idle",
                                  !.lock = Unlocked,
                                  !.outcome = "raised",
                                  !.last_request = LastRequestAfterRaise(@, limiter.time)]

\* time passes
TickRate ==
    /\ limiter.time < MaxRateClock
    /\ limiter' = [limiter EXCEPT !.time = @ + 1]

RateLimitedGet ==
    /\ \/ \E c \in Callers : Enter(c)
       \/ \E c \in Callers : Send(c)
       \/ \E c \in Callers : Return(c)
       \/ \E c \in Callers : Raise(c)
       \/ TickRate
    /\ UNCHANGED <<scanInProgress, lastScanTime, cache, now, tasks, analysis, running,
                   scanRequests, response, exchange, fundPool, pricePool, probe, answer, fundamentals_cache>>

InitRate ==
    /\ InitQuiet
    /\ probe = NoProbe

RateSpec == InitRate /\ [][RateLimitedGet]_vars

-----------------------------------------------------------------------------
(* stock_screener.py: get_nse_universe and the stocks a scan screens *)

\* the keys of self.sector_stocks, in order
MappedSectors ==
    <<"Technology", "Healthcare", "Financial", "Automotive", "Consumer", "Industrial",
      "Materials", "Energy">>

\* an instrument of the listing: the sector _determine_stock_sector gives its
\* symbol, its rank in the sector, whether it is a tradeable NSE equity, the
\* answer of the fundamentals provider and the outcome of the quick technical check
Stock(sector, k, equity, cap, tech) ==
    [sector |-> sector, k |-> k, equity |-> equity, cap |-> cap, tech |-> tech]

Elements(seq) == {seq[i] : i \in 1..Len(seq)}
Take(seq, n) == SubSeq(seq, 1, Min(n, Len(seq)))

Reverse(seq) == [i \in 1..Len(seq) |-> seq[Len(seq) + 1 - i]]

\* random.shuffle / random.sample: one of the orders the generator can give
Shuffled(seq, how) == IF how = "keep" THEN seq ELSE Reverse(seq)

\* the empty list returned in place of the fallback list
FallbackListEmpty == <<>>

\* _get_enhanced_fallback_stock_list: the first three symbols of every mapped sector
FallbackList ==
    [i \in 1..(Len(MappedSectors) * FallbackPerSector) |->
        Stock(MappedSectors[((i - 1) \div FallbackPerSector) + 1],
              ((i - 1) % FallbackPerSector) + 1, TRUE,
              CapAnswer(CapResponse(MarketCapMin + 500)), "unknown")]

\* the keys of stocks_by_sector, in insertion order
SectorsOf(stocks) ==
    LET positions == [i \in 1..Len(stocks) |-> i]
        firsts == SelectSeq(positions,
                            LAMBDA i : \A j \in 1..(i - 1) : stocks[j].sector # stocks[i].sector)
    IN [n \in 1..Len(firsts) |-> stocks[firsts[n]].sector]

InSector(stocks, sector) == SelectSeq(stocks, LAMBDA s : s.sector = sector)

\* the loop over stocks_by_sector: sector number i contributes the first
\* allocation(i) stocks of its shuffled list, allocation(i) being per_sector
\* plus one while remaining slots last
RECURSIVE TakePerSector(_, _, _, _, _)
TakePerSector(stocks, sectors, per_sector, remaining_slots, how) ==
    IF sectors = <<>> THEN <<>>
    ELSE LET n == Len(sectors)
             allocation == per_sector + (IF n <= remaining_slots THEN 1 ELSE 0)
         IN TakePerSector(stocks, SubSeq(sectors, 1, n - 1), per_sector, remaining_slots, how)
            \o Take(Shuffled(InSector(stocks, sectors[n]), how), allocation)

\* _select_by_sector_diversity (the list is not empty)
select_by_sector_diversity(stocks, how) ==
    LET sectors == SectorsOf(stocks)
        stocks_per_sector == Max(MinPerSector, DiversityTarget \div Len(sectors))
    IN TakePerSector(stocks, sectors, stocks_per_sector, 0, how)

\* _filter_by_market_metrics on the stocks themselves
CapFiltered(stocks) == SelectSeq(stocks, LAMBDA s : MarketCapKeeps(s.cap))

\* _prefilter_technical_strength: a stock is left out only on a weak score
prefilter_technical_strength(stocks, how) ==
    LET sample_size == Min(Len(stocks), TechSampleSize)
        sampled_stocks == Take(Shuffled(stocks, how), sample_size)
        technically_strong == SelectSeq(sampled_stocks, LAMBDA s : s.tech # "weak")
        remaining_stocks == SelectSeq(stocks, LAMBDA s : s \notin Elements(sampled_stocks))
        additional_needed == Min(TechBackfill - Len(technically_strong), Len(remaining_stocks))
    IN IF Len(technically_strong) < TechBackfill
       THEN technically_strong \o Take(Shuffled(remaining_stocks, how), additional_needed)
       ELSE technically_strong

\* _smart_sample_stocks
smart_sample_stocks(stocks, max_stocks, how) ==
    IF Len(stocks) <= max_stocks THEN stocks
    ELSE LET sectors == SectorsOf(stocks)
             stocks_per_sector == max_stocks \div Len(sectors)
             remaining_slots == max_stocks % Len(sectors)
             by_sector == TakePerSector(stocks, sectors, stocks_per_sector, remaining_slots, how)
             remaining == SelectSeq(stocks, LAMBDA s : s \notin Elements(by_sector))
             additional == Min(max_stocks - Len(by_sector), Len(remaining))
             final_selection ==
                 IF Len(by_sector) < max_stocks
                 THEN by_sector \o Take(Shuffled(remaining, how), additional)
                 ELSE by_sector
         IN Take(final_selection, max_stocks)

\* _apply_intelligent_filtering, steps 1 to 3: the stocks that survive filtering
SurvivingFiltering(stocks, random) ==
    LET sector_selected == select_by_sector_diversity(stocks, random[1])
        cap_filtered == CapFiltered(sector_selected)
    IN prefilter_technical_strength(cap_filtered, random[2])

\* _apply_intelligent_filtering: the final sample is always of 50
apply_intelligent_filtering(stocks, random) ==
    smart_sample_stocks(SurvivingFiltering(stocks, random), FinalSelectionSize, random[3])

\* the try block of get_nse_universe raises: the listing call fails, an
\* instrument lacks a key, or no tradeable equity is left (200 // 0)
UniverseRaises(env) ==
    \/ env.listing.kind \in {"raise", "malformed"}
    \/ SelectSeq(env.listing.instruments, LAMBDA s : s.equity) = <<>>

\* the except clause returning an empty list
get_nse_universe_without_fallback(env) ==
    IF ~env.kite \/ UniverseRaises(env) THEN FallbackListEmpty
    ELSE apply_intelligent_filtering(SelectSeq(env.listing.instruments, LAMBDA s : s.equity),
                                     env.random)

\* get_nse_universe
get_nse_universe(env) ==
    IF ~env.kite \/ UniverseRaises(env) THEN FallbackList
    ELSE apply_intelligent_filtering(SelectSeq(env.listing.instruments, LAMBDA s : s.equity),
                                     env.random)

\* the cut to max_stocks left out
CutToMaxStocksOmitted(stock_universe, max_stocks) == stock_universe

\* scan_opportunities: stocks_to_screen
CutToMaxStocks(stock_universe, max_stocks) ==
    SubSeq(stock_universe, 1, StocksToScreen(Len(stock_universe), max_stocks))

\* listings: the number of equity stocks of each sector, sector by sector
SectorSizes ==
    {<<>>, <<2>>, <<3, 3>>, <<MaxSectorSize, MaxSectorSize>>, <<12, 12, 12, 12, 12>>,
     <<7, MaxSectorSize, 20>>}

\* the provider's answers and the technical checks over a listing
DropPatterns == {"none", "all", "odd"}
Dropped(pattern, k) == pattern = "all" \/ (pattern = "odd" /\ k % 2 = 1)

SectorBlock(sector, size, cap_drop, tech_drop) ==
    [k \in 1..size |->
        Stock(sector, k, TRUE,
              CapAnswer(CapResponse(IF Dropped(cap_drop, k) THEN MarketCapMax + 1
                                                           ELSE MarketCapMin + 500)),
              IF Dropped(tech_drop, k) THEN "weak" ELSE "strong")]

\* an index future listed on NSE beside the equities
NonEquity == Stock("Others", 0, FALSE, CapRaises, "unknown")

RECURSIVE Blocks(_, _, _)
Blocks(sizes, cap_drop, tech_drop) ==
    IF sizes = <<>> THEN <<>>
    ELSE LET n == Len(sizes)
         IN Blocks(SubSeq(sizes, 1, n - 1), cap_drop, tech_drop)
            \o SectorBlock(MappedSectors[n], sizes[n], cap_drop, tech_drop)

Listings ==
    {[kind |-> "raise", instruments |-> <<>>], [kind |-> "malformed", instruments |-> <<>>]}
    \cup {[kind |-> "list", instruments |-> <<NonEquity>> \o Blocks(sizes, cap_drop, tech_drop)] :
             sizes \in SectorSizes, cap_drop \in DropPatterns, tech_drop \in DropPatterns}

Shuffles == {"keep", "reverse"}

Environments ==
    {[kite |-> kite, listing |-> listing, random |-> random] :
        kite \in BOOLEAN, listing \in Listings, random \in [1..3 -> Shuffles]}

\* Query(ge=5, le=100): the limits of the model and one above the final sample
UniverseLimits == StockLimits \cup {FinalSelectionSize + 1}

InitUniverse ==
    /\ InitQuiet
    /\ \E env \in Environments : \E max_stocks \in UniverseLimits :
          probe = [op |-> "scan", env |-> env, max_stocks |-> max_stocks]

\* scan_opportunities: stock_universe = self.get_nse_universe()
BuildUniverse ==
    /\ probe.op = "scan"
    /\ probe' = [op |-> "universe", env |-> probe.env, max_stocks |-> probe.max_stocks,
                 stock_universe |-> get_nse_universe(probe.env)]
    /\ UNCHANGED <<scanInProgress, lastScanTime, cache, now, tasks, analysis, running,
                   scanRequests, response, exchange, fundPool, pricePool, limiter, answer, fundamentals_cache>>

\* scan_opportunities: stocks_to_screen = stock_universe[:max_stocks]
CutUniverse ==
    /\ probe.op = "universe"
    /\ probe' = [op |-> "stocks_to_screen", env |-> probe.env, max_stocks |-> probe.max_stocks,
                 stock_universe |-> probe.stock_universe,
                 stocks_to_screen |-> CutToMaxStocks(probe.stock_universe, probe.max_stocks)]
    /\ UNCHANGED <<scanInProgress, lastScanTime, cache, now, tasks, analysis, running,
                   scanRequests, response, exchange, fundPool, pricePool, limiter, answer, fundamentals_cache>>

NextUniverse == BuildUniverse \/ CutUniverse

UniverseSpec == InitUniverse /\ [][NextUniverse]_vars

-----------------------------------------------------------------------------
(* opportunities.py: GET /opportunities/list and GET /opportunities/top *)

\* an Optional[str] query parameter left out
NoText == ""

\* the values of ScreenerSignal
ScreenerSignals == {"STRONG_BUY", "BUY", "HOLD", "SELL", "STRONG_SELL"}

\* str.upper() and str.lower() on the texts of the model
UpperCase(text) ==
    CASE text = "buy" -> "BUY"
      [] text = "Hold" -> "HOLD"
      [] text = "maybe" -> "MAYBE"
      [] text = "unknown" -> "UNKNOWN"
      [] text = "Unknown" -> "UNKNOWN"
      [] text = "bank" -> "BANK"
      [] OTHER -> text

LowerCase(text) ==
    CASE text = "BUY" -> "buy"
      [] text = "Hold" -> "hold"
      [] text = "HOLD" -> "hold"
      [] text = "Unknown" -> "unknown"
      [] text = "KNOWN" -> "known"
      [] OTHER -> text

\* part in text, for the sector names of the model
Contains(text, part) ==
    \/ part = text
    \/ part = ""
    \/ (text = "unknown" /\ part \in {"known", "un", "now"})

\* StockOpportunity.to_dict
to_dict(opp) ==
    [ticker |-> opp.ticker,
     current_price |-> opp.current_price,
     market_cap |-> opp.market_cap,
     sector |-> opp.sector,
     technical_indicators |->
         [rsi |-> opp.rsi, macd_signal |-> opp.macd_signal,
          moving_avg_trend |-> opp.moving_avg_trend, volume_surge |-> opp.volume_surge],
     fundamental_metrics |->
         [pe_ratio |-> opp.pe_ratio, debt_to_equity |-> opp.debt_to_equity,
          roe |-> opp.roe, revenue_growth |-> opp.revenue_growth],
     ai_analysis |->
         [technical_score |-> opp.technical_score, fundamental_score |-> opp.fundamental_score,
          overall2 |-> opp.overall2, signal |-> opp.signal]]

ToDicts(opps) == [i \in 1..Len(opps) |-> to_dict(opps[i])]

\* what a handler answers: the status code, the opportunities, the message of
\* an answer without opportunities, the detail of an HTTPException
Answered(opps, message, last_scan) ==
    [status |-> 200, opportunities |-> opps, message |-> message, detail |-> NoText,
     last_scan |-> last_scan]
Rejected(status, detail) ==
    [status |-> status, opportunities |-> <<>>, message |-> NoText, detail |-> detail,
     last_scan |-> None]

NoOpportunitiesMessage == "No opportunities available. Run /scan first."

\* list_opportunities; min_score is doubled like the scores.  The HTTPException
\* raised for an invalid signal is raised inside the try block and caught by
\* its except Exception clause, which raises the 500.
list_opportunities(opportunities_cache, last_scan, signal, min_score2, limit, sector) ==
    IF opportunities_cache = <<>>
    THEN Answered(<<>>, NoOpportunitiesMessage, None)
    ELSE IF signal # NoText /\ UpperCase(signal) \notin ScreenerSignals
    THEN Rejected(500, "Failed to list opportunities: 400: Invalid signal")
    ELSE LET by_signal ==
                 IF signal # NoText
                 THEN SelectSeq(opportunities_cache, LAMBDA opp : opp.signal = UpperCase(signal))
                 ELSE opportunities_cache
             by_score == SelectSeq(by_signal, LAMBDA opp : opp.overall2 >= min_score2)
             by_sector ==
                 IF sector # NoText
                 THEN SelectSeq(by_score,
                                LAMBDA opp : Contains(LowerCase(opp.sector), LowerCase(sector)))
                 ELSE by_score
         IN Answered(ToDicts(Take(by_sector, limit)), NoText, last_scan)

\* get_top_opportunities
get_top_opportunities(opportunities_cache, last_scan, count) ==
    IF opportunities_cache = <<>>
    THEN Answered(<<>>, NoOpportunitiesMessage, None)
    ELSE Answered(ToDicts(Take(opportunities_cache, count)), NoText, last_scan)

\* the query parameters of the model
SignalTexts == {NoText, "BUY", "buy", "Hold", "STRONG_SELL", "maybe"}
MinScores2 == {0, 120, 200}
Limits == {1, 10}
SectorTexts == {NoText, "Unknown", "KNOWN", "bank"}
Counts == {1, 5}

\* how each background scan stands when a query is served
ScanOutcomes == [t \in TaskIds |-> tasks[t].outcome]

\* GET /opportunities/list
ListOpportunities(signal, min_score2, limit, sector) ==
    /\ CanStart
    /\ answer' = [query |-> "list", signal |-> signal, scans |-> ScanOutcomes,
                  cached |-> Len(cache),
                  body |-> list_opportunities(cache, lastScanTime, signal, min_score2,
                                              limit, sector)]
    /\ UNCHANGED <<scanInProgress, lastScanTime, cache, now, tasks, analysis, running,
                   scanRequests, response, exchange, fundPool, pricePool, probe, limiter,
                   fundamentals_cache>>

\* GET /opportunities/top
TopOpportunities(count) ==
    /\ CanStart
    /\ answer' = [query |-> "top", signal |-> NoText, scans |-> ScanOutcomes,
                  cached |-> Len(cache),
                  body |-> get_top_opportunities(cache, lastScanTime, count)]
    /\ UNCHANGED <<scanInProgress, lastScanTime, cache, now, tasks, analysis, running,
                   scanRequests, response, exchange, fundPool, pricePool, probe, limiter,
                   fundamentals_cache>>

\* the cache an earlier scan left: one opportunity
PriorCache ==
    SortByScore(<<MakeOpportunity(1, calculate_technical_indicators(EmptyFrame),
                                  get_fundamental_metrics(RespFull))>>)

\* a scan requested with force_refresh, before or after an earlier scan has
\* filled the cache
InitQuery ==
    /\ scanInProgress = FALSE
    /\ \/ cache = <<>> /\ lastScanTime = None
       \/ cache = PriorCache /\ lastScanTime = 0
    /\ now = 0
    /\ analysis = IdleAnalysis
    /\ running = Idle
    /\ scanRequests = 1
    /\ response = [status |-> "scan_started", force_refresh |-> TRUE]
    /\ probe = NoProbe
    /\ limiter = LimiterAtRest
    /\ answer = NoAnswer
    /\ fundamentals_cache = NoCacheFiles
    /\ \E m \in StockLimits :
          tasks = [t \in TaskIds |-> IF t = 1 THEN QueuedTask(m) ELSE IdleTask]
    /\ exchange = MaxUniverse
    /\ fundPool = {RespError, RespFull, RespWeak}
    /\ pricePool = SmallPriceOutcomes

NextQuery ==
    \/ ScanStep
    \/ \E signal \in SignalTexts : \E min_score2 \in MinScores2 : \E limit \in Limits :
          \E sector \in SectorTexts : ListOpportunities(signal, min_score2, limit, sector)
    \/ \E count \in Counts : TopOpportunities(count)

QuerySpec == InitQuery /\ [][NextQuery]_vars

-----------------------------------------------------------------------------
(* zerodha_api: get_fundamentals and its cache files *)

\* fundamentals_data parsed from a page, and the dict returned for a failure
Fetched(ticker, page) == [ticker |-> ticker, error |-> NoText, page |-> page]
Failed(ticker, error) == [ticker |-> ticker, error |-> error, page |-> 0]

\* what requests.get gives: a response with a status code, or a timeout
ProviderResponse(status, page) == [raised |-> FALSE, status |-> status, page |-> page]
ProviderTimeout == [raised |-> TRUE, status |-> 0, page |-> 0]
ProviderOutcomes ==
    {ProviderResponse(200, page) : page \in 1..MaxPages}
        \cup {ProviderResponse(404, 0), ProviderResponse(503, 0), ProviderTimeout}

HttpError(status) == IF status = 404 THEN "HTTP 404" ELSE "HTTP 503"

\* get_fundamentals(ticker, consolidated) over the cache files `files`, `first`
\* and `second` being what the provider gives to the first and to the fallback
\* request: the data returned, the files afterwards, the requests issued
get_fundamentals(files, ticker, consolidated, first, second) ==
    LET cache_suffix == IF consolidated THEN "consolidated" ELSE "standalone"
        fallback == consolidated /\ ~first.raised /\ first.status = 404
        final_suffix == IF fallback THEN "standalone" ELSE cache_suffix
        resp == IF fallback THEN second ELSE first
        requests == IF fallback THEN 2 ELSE 1
    IN IF files[ticker][cache_suffix] # NoObject
       THEN [data |-> files[ticker][cache_suffix], files |-> files, requests |-> 0]
       ELSE IF resp.raised
       THEN [data |-> Failed(ticker, "Timeout"), files |-> files, requests |-> requests]
       ELSE IF resp.status # 200
       THEN [data |-> IF files[ticker][final_suffix] # NoObject
                      THEN files[ticker][final_suffix]
                      ELSE Failed(ticker, HttpError(resp.status)),
             files |-> files, requests |-> requests]
       ELSE [data |-> Fetched(ticker, resp.page),
             files |-> [files EXCEPT ![ticker][final_suffix] = Fetched(ticker, resp.page)],
             requests |-> requests]

\* the data of the first default call that succeeded, by ticker, before the
\* call that probe records
NeverSucceeded == [ticker \in Tickers |-> NoObject]
SucceededBefore == IF probe.op = "get_fundamentals" THEN probe.succeeded ELSE NeverSucceeded

InitFundamentals ==
    /\ InitQuiet
    /\ probe = NoProbe

\* one call of get_fundamentals
GetFundamentals(ticker, consolidated, first, second) ==
    LET call == get_fundamentals(fundamentals_cache, ticker, consolidated, first, second)
        before == SucceededBefore
    IN /\ fundamentals_cache' = call.files
       /\ probe' = [op |-> "get_fundamentals", ticker |-> ticker,
                    consolidated |-> consolidated, data |-> call.data,
                    requests |-> call.requests, earlier |-> before[ticker],
                    succeeded |->
                        IF consolidated /\ call.data.error = NoText /\ before[ticker] = NoObject
                        THEN [before EXCEPT ![ticker] = call.data] ELSE before]
       /\ UNCHANGED <<scanInProgress, lastScanTime, cache, now, tasks, analysis, running,
                      scanRequests, response, exchange, fundPool, pricePool, limiter, answer>>

NextFundamentals ==
    \E ticker \in Tickers : \E consolidated \in BOOLEAN :
        \E first \in ProviderOutcomes : \E second \in ProviderOutcomes :
            GetFundamentals(ticker, consolidated, first, second)

FundamentalsSpec == InitFundamentals /\ [][NextFundamentals]_vars

-----------------------------------------------------------------------------
(* Properties *)

InFlight == {t \in TaskIds : tasks[t].pc = "gather"}
Ended(t) == tasks[t].pc \in {"done", "failed"}

UnitIds(t) == 1..Len(tasks[t].units)
Fetching(t) == {i \in UnitIds(t) : tasks[t].units[i].pc \in {"fund", "price"}}
AnalysisFetching == IF analysis.pc \in {"fund", "price"} THEN 1 ELSE 0

RECURSIVE FetchingCount(_)
FetchingCount(ts) ==
    IF ts = {} THEN 0
    ELSE LET t == CHOOSE x \in ts : TRUE
         IN Cardinality(Fetching(t)) + FetchingCount(ts \ {t})

Members(seq) == {seq[k] : k \in 1..Len(seq)}

SortedByScore(seq) ==
    \A i \in 1..Len(seq) : \A j \in 1..Len(seq) : i < j => seq[i].overall2 >= seq[j].overall2

\* a GET /scan request is handled in this step
ScanRequestHandled == scanRequests' = scanRequests + 1

NewlyQueued == {t \in TaskIds : tasks'[t].pc = "queued" /\ tasks'[t] # tasks[t]}

\* GET /opportunities/status: what a reader sees of the shared state
get_scan_status ==
    [scan_in_progress |-> scanInProgress,
     opportunities_cached |-> Len(cache),
     last_scan |-> lastScanTime,
     cache_age_seconds |-> IF lastScanTime # None THEN now - lastScanTime ELSE None]

\* a background scan starts, or ends, in this step
ScanStarts == \E t \in TaskIds : tasks[t].pc = "queued" /\ tasks'[t].pc = "gather"
ScanEnds == \E t \in TaskIds : tasks[t].pc = "gather" /\ tasks'[t].pc # "gather"
ScanReturns ==
    \E t \in TaskIds :
        /\ tasks[t].pc = "gather" /\ tasks'[t].pc = "done"
        /\ cache' = tasks'[t].ret

\* C1: at most one orchestrator run (_background_scan awaiting scan_opportunities)
\* is in flight at any time.
C1_AtMostOneScanInFlight == Cardinality(InFlight) <= 1

\* C2: every scan that starts ends, and at the step in which it ends, normally
\* or by an exception, scanInProgress is false.
C2_FlagClearedOnEveryExit ==
    /\ [][\A t \in TaskIds :
            (tasks[t].pc = "gather" /\ tasks'[t].pc # "gather") => ~scanInProgress']_vars
    /\ \A t \in TaskIds : (tasks[t].pc = "gather") ~> Ended(t)

C2_CrashedScanClearedFlag ==
    \E t \in TaskIds : tasks[t].outcome = "scan_raised" /\ ~scanInProgress

\* C3: a scan request handled while scanInProgress is true is answered
\* scan_in_progress and enqueues no task, whatever max_stocks and force_refresh.
C3_InProgressTakesPrecedence ==
    [][(ScanRequestHandled /\ scanInProgress)
          => (response'.status = "scan_in_progress" /\ tasks' = tasks)]_vars

C3_ForcedRequestDuringScan ==
    /\ response.status = "scan_in_progress"
    /\ response.force_refresh
    /\ scanInProgress

\* C4: with no scan in progress, an unforced request less than 300 seconds after
\* the last completed scan is answered using_cache and starts nothing; any other
\* request enqueues one scan task and is answered scan_started.
C4_FreshnessWindow ==
    [][(ScanRequestHandled /\ ~scanInProgress)
          => IF ~response'.force_refresh /\ lastScanTime # None /\ now - lastScanTime < 300
             THEN response'.status = "using_cache" /\ tasks' = tasks
             ELSE /\ response'.status = "scan_started"
                  /\ Cardinality(NewlyQueued) = 1
                  /\ \A t \in TaskIds \ NewlyQueued : tasks'[t] = tasks[t]]_vars

C4_AnsweredFromCache ==
    /\ response.status = "using_cache"
    /\ lastScanTime # None
    /\ ~scanInProgress

\* C5: scan_opportunities completes normally for every combination of candidate
\* outcomes and returns the opportunities of exactly the candidates whose
\* screening succeeded (an empty list when every candidate is excluded).
C5_ScanReturnsSuccessfulCandidates ==
    [][\A t \in TaskIds :
          (tasks[t].pc = "gather" /\ tasks'[t].pc # "gather")
             => /\ tasks'[t].outcome = "returned"
                /\ Members(tasks'[t].ret) = Members(Successful(tasks[t].units))
                /\ Len(tasks'[t].ret) = Len(Successful(tasks[t].units))]_vars

\* C6: every Opportunity in a result or in the cache has non-null price and P/E,
\* a candidate is screened further only on an error-free response with both, and
\* a candidate whose response is an error or lacks price or P/E resolves to None.
EssentialsMissing(resp) == resp.error \/ resp.price = None \/ resp.pe_ratio = None

HasEssentials(opp) == opp.current_price # None /\ opp.pe_ratio # None

C6_ExclusionInvariant ==
    /\ [](/\ \A k \in 1..Len(cache) : HasEssentials(cache[k])
          /\ \A t \in TaskIds :
                /\ \A k \in 1..Len(tasks[t].ret) : HasEssentials(tasks[t].ret[k])
                /\ \A i \in UnitIds(t) :
                      LET u == tasks[t].units[i] IN
                      /\ u.result # NoObject => HasEssentials(u.result)
                      /\ u.pc = "price" => ~EssentialsMissing(u.resp))
    /\ [][\A t \in TaskIds : \A i \in UnitIds(t) :
            (/\ tasks[t].units[i].pc = "fund"
             /\ EssentialsMissing(tasks[t].units[i].resp)
             /\ tasks'[t].pc = "gather"
             /\ tasks'[t].units[i].pc # "fund")
               => (tasks'[t].units[i].pc = "done" /\ tasks'[t].units[i].result = NoObject)]_vars

C6_ExcludedBesideIncluded ==
    \E t \in TaskIds : \E i, j \in UnitIds(t) :
        /\ tasks[t].units[i].pc = "done" /\ tasks[t].units[i].result = NoObject
        /\ tasks[t].units[j].pc = "done" /\ tasks[t].units[j].result # NoObject

\* C7: every fundamental field of the metrics an Opportunity is built from is a
\* value the provider returned for the symbol, or is derived from such values.
Supplied(resp) ==
    {resp.price, resp.pe_ratio, resp.market_cap, resp.roe, resp.total_debt, resp.reserves} \ {None}

C7_NoFabricatedData ==
    \A t \in TaskIds : \A i \in UnitIds(t) :
        LET u == tasks[t].units[i] IN
        u.fd # NoObject =>
            /\ u.fd.price \in Supplied(u.resp)
            /\ u.fd.pe_ratio \in Supplied(u.resp)
            /\ u.fd.market_cap \in Supplied(u.resp)
            /\ u.fd.roe \in Supplied(u.resp)
            /\ u.fd.debt_to_equity[1] \in Supplied(u.resp)
            /\ u.fd.debt_to_equity[2] \in Supplied(u.resp)
            /\ u.fd.revenue_growth \in Supplied(u.resp)

\* C8: the list returned by a scan and the list held in the cache are sorted by
\* overall score, highest first.
C8_SortedByScore ==
    /\ SortedByScore(cache)
    /\ \A t \in TaskIds : SortedByScore(tasks[t].ret)

C8_ReorderedCache ==
    /\ Len(cache) >= 2
    /\ cache[1].overall2 > cache[2].overall2
    /\ cache[1].ticker > cache[2].ticker

\* C9: never more than 5 screen_stock executions are between the start of their
\* fundamentals fetch and the end of their price fetch.
C9_AtMostFiveFetching == FetchingCount(TaskIds) + AnalysisFetching <= 5

C9_FetchingAmongMoreThanFive ==
    \E t \in TaskIds : Len(tasks[t].units) > 5 /\ Fetching(t) # {}

\* C10: once every work unit of a scan has been through the gate and resolved,
\* the scan returns from scan_opportunities, for any number of candidates.
C10_ResolvedScanReturns ==
    \A t \in TaskIds : Ended(t) => tasks[t].outcome = "returned"

\* C11: the cached list and the last-scan timestamp change only in the step that
\* ends a scan, both together (the list to the scan's result, the timestamp to
\* the time of that step); the in-progress flag changes only in a step that
\* starts or ends a scan; no reader sees a list without its timestamp.
C11_CacheReplacedAtomically ==
    /\ [][/\ (cache' # cache \/ lastScanTime' # lastScanTime) => ScanReturns
          /\ ScanReturns => lastScanTime' = now
          /\ scanInProgress' # scanInProgress => (ScanStarts \/ ScanEnds)]_vars
    /\ [](get_scan_status.last_scan = None => get_scan_status.opportunities_cached = 0)

C11_ListReadableDuringScan ==
    /\ get_scan_status.scan_in_progress
    /\ get_scan_status.opportunities_cached > 0
    /\ get_scan_status.last_scan # None /\ get_scan_status.last_scan < now
    /\ \E t \in TaskIds : tasks[t].pc = "gather"

\* the call under way has been scored / has been given its signal
Scored == probe.op \in {"scored", "signalled"}
Signalled == probe.op = "signalled"
Complete(d, keys) == keys \subseteq DOMAIN d
TechnicalKeys == {"rsi", "macd_signal", "moving_avg_trend", "volume_surge"}
FundamentalKeys == {"pe_ratio", "roe", "debt_to_equity", "revenue_growth"}

\* C12: for every technical and fundamental feature set, with fields missing and
\* with extreme values, the three scores returned lie in [0,100] (the overall
\* score, kept doubled, in [0,200]).
C12_ScoresWithinBounds ==
    Scored =>
        /\ 0 <= probe.scores.technical_score /\ probe.scores.technical_score <= 100
        /\ 0 <= probe.scores.fundamental_score /\ probe.scores.fundamental_score <= 100
        /\ 0 <= probe.scores.overall2 /\ probe.scores.overall2 <= 200

C12_ClampedWithFieldMissing ==
    /\ Scored
    /\ "rsi" \notin DOMAIN probe.technical
    /\ RawTechnicalScore(probe.technical) > 100
    /\ probe.scores.technical_score = 100

\* C13: the scores equal the rule table: each component is 50 plus its
\* adjustments, clamped to [0,100], and the overall score is the mean of the two
\* clamped components.
C13_RsiRule(rsi) ==
    IF rsi = NaN THEN 0
    ELSE IF rsi >= 30 /\ rsi <= 70 THEN 20 ELSE IF rsi < 30 THEN 15 ELSE -15

C13_TechnicalTable(t) ==
    50 + C13_RsiRule(t.rsi)
       + (CASE t.macd_signal \in {"BULLISH", "BULLISH_CROSSOVER"} -> 15
            [] t.macd_signal \in {"BEARISH", "BEARISH_CROSSOVER"} -> -15
            [] OTHER -> 0)
       + (CASE t.moving_avg_trend \in {"UPTREND", "STRONG_UPTREND"} -> 15
            [] t.moving_avg_trend \in {"DOWNTREND", "STRONG_DOWNTREND"} -> -15
            [] OTHER -> 0)
       + (IF t.volume_surge THEN 10 ELSE 0)

C13_FundamentalTable(f) ==
    50 + (CASE f.pe_ratio >= 10 /\ f.pe_ratio <= 20 -> 20
            [] f.pe_ratio < 10 -> 15
            [] f.pe_ratio > 30 -> -15
            [] OTHER -> 0)
       + (CASE f.roe > 20 -> 20
            [] f.roe > 15 /\ f.roe <= 20 -> 10
            [] f.roe < 10 -> -10
            [] OTHER -> 0)
       + (CASE 10 * f.debt_to_equity[1] < 3 * f.debt_to_equity[2] -> 15
            [] f.debt_to_equity[1] > f.debt_to_equity[2] -> -15
            [] OTHER -> 0)
       + (CASE f.revenue_growth > 20 -> 15
            [] f.revenue_growth > 10 /\ f.revenue_growth <= 20 -> 10
            [] f.revenue_growth < 5 -> -10
            [] OTHER -> 0)

C13_Clamped(x) == IF x < 0 THEN 0 ELSE IF x > 100 THEN 100 ELSE x

C13_ScoresEqualRuleTable ==
    (/\ Scored
     /\ Complete(probe.technical, TechnicalKeys)
     /\ Complete(probe.fundamental, FundamentalKeys))
        => /\ probe.scores.technical_score = C13_Clamped(C13_TechnicalTable(probe.technical))
           /\ probe.scores.fundamental_score = C13_Clamped(C13_FundamentalTable(probe.fundamental))
           /\ probe.scores.overall2 =
                 C13_Clamped(C13_TechnicalTable(probe.technical))
                   + C13_Clamped(C13_FundamentalTable(probe.fundamental))

C13_ClampedBeforeMean ==
    /\ Scored
    /\ Complete(probe.technical, TechnicalKeys)
    /\ Complete(probe.fundamental, FundamentalKeys)
    /\ RawTechnicalScore(probe.technical) = 110
    /\ RawFundamentalScore(probe.fundamental) = 0
    /\ probe.scores.overall2 = 100

\* C14: signal and confidence follow the first threshold, from high to low, that
\* the overall score reaches, and target and stop are the fixed multiples of the
\* current price for the signal's side; nothing else enters.
C14_SignalTable(overall2) ==
    CASE overall2 >= 160 -> <<"STRONG_BUY", 9>>
      [] overall2 >= 130 /\ overall2 < 160 -> <<"BUY", 7>>
      [] overall2 >= 70 /\ overall2 < 130 -> <<"HOLD", 5>>
      [] overall2 >= 40 /\ overall2 < 70 -> <<"SELL", 7>>
      [] OTHER -> <<"STRONG_SELL", 9>>

C14_SignalFromScoreAndPrice ==
    Signalled =>
        LET row == C14_SignalTable(probe.scores.overall2)
            buy == row[1] \in {"STRONG_BUY", "BUY"}
        IN /\ probe.advice.signal = row[1]
           /\ probe.advice.confidence = row[2]
           /\ probe.advice.target_price = (IF buy THEN 115 ELSE 95) * probe.current_price
           /\ probe.advice.stop_loss = (IF buy THEN 92 ELSE 105) * probe.current_price

C14_StrongBuyAtThreshold ==
    /\ Signalled
    /\ probe.scores.overall2 = 160
    /\ probe.advice.signal = "STRONG_BUY"
    /\ probe.advice.target_price = 115 * probe.current_price

\* C15: buyReasons holds one entry for each condition that holds among RSI<35,
\* MACD bullish, uptrend, volume surge, P/E<15, ROE>18, growth>15, in that order,
\* and riskFactors one for each among RSI>75, D/E>1.0, P/E>25, growth<5.
C15_Has(d, key) == key \in DOMAIN d

C15_Holds(label, t, f) ==
    CASE label = "oversold" -> C15_Has(t, "rsi") /\ t.rsi # NaN /\ t.rsi < 35
      [] label = "macd_bullish" ->
            C15_Has(t, "macd_signal") /\ t.macd_signal \in {"BULLISH", "BULLISH_CROSSOVER"}
      [] label = "uptrend" ->
            C15_Has(t, "moving_avg_trend") /\ t.moving_avg_trend \in {"UPTREND", "STRONG_UPTREND"}
      [] label = "volume_surge" -> C15_Has(t, "volume_surge") /\ t.volume_surge
      [] label = "low_pe" -> C15_Has(f, "pe_ratio") /\ f.pe_ratio < 15
      [] label = "strong_roe" -> C15_Has(f, "roe") /\ f.roe > 18
      [] label = "revenue_growth" -> C15_Has(f, "revenue_growth") /\ f.revenue_growth > 15
      [] label = "overbought" -> C15_Has(t, "rsi") /\ t.rsi # NaN /\ t.rsi > 75
      [] label = "high_debt" ->
            C15_Has(f, "debt_to_equity") /\ f.debt_to_equity[1] > f.debt_to_equity[2]
      [] label = "high_pe" -> C15_Has(f, "pe_ratio") /\ f.pe_ratio > 25
      [] label = "slow_growth" -> C15_Has(f, "revenue_growth") /\ f.revenue_growth < 5

C15_Selected(labels, t, f) == SelectSeq(labels, LAMBDA label : C15_Holds(label, t, f))

C15_ReasonsMatchConditions ==
    Signalled =>
        /\ probe.advice.buy_reasons =
              C15_Selected(<<"oversold", "macd_bullish", "uptrend", "volume_surge",
                             "low_pe", "strong_roe", "revenue_growth">>,
                           probe.technical, probe.fundamental)
        /\ probe.advice.risk_factors =
              C15_Selected(<<"overbought", "high_debt", "high_pe", "slow_growth">>,
                           probe.technical, probe.fundamental)

C15_AllBuyReasonsAndARisk ==
    /\ Signalled
    /\ Len(probe.advice.buy_reasons) = 7
    /\ probe.advice.risk_factors = <<"high_debt">>

\* a work unit's price step: it leaves "price" and resolves while the scan gathers
PriceStepOf(t, i) ==
    /\ tasks[t].pc = "gather" /\ i \in UnitIds(t) /\ tasks[t].units[i].pc = "price"
    /\ tasks'[t].pc = "gather" /\ tasks'[t].units[i].pc = "done"

IsNeutral(opp) ==
    /\ opp.rsi = 50 /\ opp.macd_signal = "NEUTRAL"
    /\ opp.moving_avg_trend = "NEUTRAL" /\ opp.volume_surge = FALSE

C17_NeutralOnShortSeries ==
    (probe.op = "indicators" /\ probe.frame.bars < 20) => probe.result = NeutralIndicators

\* C18: a sub-computation that raises takes its neutral default and the other
\* three indicators keep the values computed from the frame.
C18_IndependentFaultTolerance ==
    (probe.op = "indicators" /\ probe.frame.bars > 0) =>
        /\ probe.result.rsi =
              (IF IndicatorRaises("rsi", probe.frame) THEN 50 ELSE RsiOf(probe.frame))
        /\ probe.result.macd_signal =
              (IF IndicatorRaises("macd", probe.frame) THEN "NEUTRAL" ELSE MacdOf(probe.frame))
        /\ probe.result.moving_avg_trend =
              (IF IndicatorRaises("trend", probe.frame) THEN "NEUTRAL" ELSE TrendOf(probe.frame))
        /\ probe.result.volume_surge =
              (IF IndicatorRaises("volume", probe.frame) THEN FALSE
                                                         ELSE VolumeSurgeOf(probe.frame))

\* C20: the market-cap stage drops a stock only when the provider returned a
\* market capitalization outside [500, 50000]; it keeps a stock whose market cap
\* is in the band, whose lookup raised or answered an error, or whose response
\* carries no market cap.
C20_ReturnedCapOutsideBand(outcome) ==
    /\ outcome.kind = "answer" /\ ~outcome.resp.error
    /\ outcome.resp.market_cap # None
    /\ (outcome.resp.market_cap < 500 \/ outcome.resp.market_cap > 50000)

C20_PermissiveMarketCapStage ==
    probe.op = "filtered" =>
        \A i \in 1..Len(probe.outcomes) :
            (i \in Members(probe.kept)) <=> ~C20_ReturnedCapOutsideBand(probe.outcomes[i])

\* C19: requests to the fundamentals provider never overlap, and every request
\* starts at least one second after the previous request, whether that request
\* returned a response or raised.
C19_Requesting == {c \in Callers : limiter.pc[c] = "requesting"}

C19_SerializedAndPaced ==
    /\ Cardinality(C19_Requesting) <= 1
    /\ limiter.calls >= 2 => limiter.start - limiter.previous >= MinSpacing

\* C21: when the primary source is unavailable, the listing call raises, an
\* instrument is malformed or no tradeable equity is listed, get_nse_universe
\* returns the fallback list, three stocks of each of the eight mapped sectors.
C21_BuildFails ==
    \/ ~probe.env.kite
    \/ probe.env.listing.kind # "list"
    \/ \A i \in 1..Len(probe.env.listing.instruments) : ~probe.env.listing.instruments[i].equity

C21_SectorBalanced(stocks) ==
    /\ Len(stocks) = 24
    /\ \A i, j \in 1..Len(stocks) : i # j => stocks[i] # stocks[j]
    /\ \A n \in 1..8 :
          Cardinality({i \in 1..Len(stocks) : stocks[i].sector = MappedSectors[n]}) = 3

C21_FallbackOnBuildFailure ==
    (probe.op \in {"universe", "stocks_to_screen"} /\ C21_BuildFails)
        => C21_SectorBalanced(probe.stock_universe)

C21_FallbackAfterEmptyListing ==
    /\ probe.op = "universe"
    /\ probe.env.kite
    /\ probe.env.listing.kind = "list"
    /\ \A i \in 1..Len(probe.env.listing.instruments) : ~probe.env.listing.instruments[i].equity
    /\ C21_SectorBalanced(probe.stock_universe)

\* C22: a scan screens at most max_stocks candidates, and at least none,
\* whatever universe the builder produced.
C22_ScreenedWithinLimit ==
    probe.op = "stocks_to_screen"
        => /\ Len(probe.stocks_to_screen) >= 0
           /\ Len(probe.stocks_to_screen) <= probe.max_stocks

C22_FallbackCutToLimit ==
    /\ probe.op = "stocks_to_screen"
    /\ ~probe.env.kite
    /\ Len(probe.stock_universe) > probe.max_stocks
    /\ Len(probe.stocks_to_screen) = probe.max_stocks

\* C28: when more candidates survive filtering than max_stocks, the scan screens
\* exactly max_stocks distinct candidates, and every sector of the surviving set
\* has at least min(its surviving candidates, max_stocks \div k) of them, k being
\* the number of sectors in the surviving set.
C28_Surviving ==
    SurvivingFiltering(SelectSeq(probe.env.listing.instruments, LAMBDA s : s.equity),
                       probe.env.random)

C28_CountIn(stocks, sector) == Cardinality({i \in 1..Len(stocks) : stocks[i].sector = sector})

C28_SlotsSpreadOverSectors ==
    (/\ probe.op = "stocks_to_screen"
     /\ ~C21_BuildFails
     /\ Len(C28_Surviving) > probe.max_stocks)
        => LET screened == probe.stocks_to_screen
               sectors == {C28_Surviving[i].sector : i \in 1..Len(C28_Surviving)}
               share == probe.max_stocks \div Cardinality(sectors)
           IN /\ Len(screened) = probe.max_stocks
              /\ \A i, j \in 1..Len(screened) : i # j => screened[i] # screened[j]
              /\ \A sector \in sectors :
                    C28_CountIn(screened, sector)
                        >= Min(C28_CountIn(C28_Surviving, sector), share)

\* C23: a list or top query served after the most recent scan failed, or
\* produced no opportunities, answers with an empty opportunity list, an
\* explanatory message and no error, whatever the cache held before that scan.
C23_LastScanFailedOrEmpty ==
    \/ answer.scans[1] = "scan_raised"
    \/ (answer.scans[1] = "returned" /\ answer.cached = 0)

C23_EmptyAnswerAfterFailedScan ==
    (answer.query \in {"list", "top"} /\ C23_LastScanFailedOrEmpty)
        => /\ answer.body.status = 200
           /\ answer.body.opportunities = <<>>
           /\ answer.body.message # NoText

\* C29: a list query with a signal filter that is none of the five signals
\* (compared case-insensitively) is rejected with 400 'Invalid signal' in
\* every cache state, never with 500 and never answered as a valid query.
C29_Malformed(signal) == signal # NoText /\ UpperCase(signal) \notin ScreenerSignals

C29_InvalidSignalRejected ==
    (answer.query = "list" /\ C29_Malformed(answer.signal)) => answer.body.status = 400

\* C24: the sequence a scan returns is fixed by the candidates and their data,
\* whatever the order in which the work units ran: the opportunities of the
\* successful candidates, by overall score descending, equal scores in
\* candidate order.
C24_DeterministicOrder ==
    [][\A t \in TaskIds :
          (tasks[t].pc = "gather" /\ tasks'[t].pc = "done")
             => LET ret == tasks'[t].ret
                    successful == Successful(tasks[t].units)
                IN /\ Len(ret) = Len(successful)
                   /\ {ret[k] : k \in 1..Len(ret)}
                          = {successful[k] : k \in 1..Len(successful)}
                   /\ \A i, j \in 1..Len(ret) :
                         i < j => \/ ret[i].overall2 > ret[j].overall2
                                  \/ /\ ret[i].overall2 = ret[j].overall2
                                     /\ ret[i].ticker < ret[j].ticker]_vars

C24_TieKeptAfterReorder ==
    \E t \in TaskIds :
        /\ tasks[t].pc = "done"
        /\ \E i, j, k \in 1..Len(tasks[t].ret) :
              /\ i < j /\ j < k
              /\ tasks[t].ret[i].ticker > tasks[t].ret[j].ticker
              /\ tasks[t].ret[j].overall2 = tasks[t].ret[k].overall2

\* C25: in a work unit the fundamentals are fetched before any price history,
\* and a price history is fetched only for a candidate whose fundamentals
\* response is error-free and holds a price and a P/E.
C25_ValidFundamentals(resp) ==
    /\ resp # NoObject
    /\ ~resp.error
    /\ resp.price # None
    /\ resp.pe_ratio # None

C25_FundamentalsGatePriceFetch ==
    [][\A t \in TaskIds : \A i \in 1..Len(tasks[t].units) :
          (tasks'[t].pc = "gather" /\ tasks'[t].units[i] # tasks[t].units[i])
             => /\ tasks[t].units[i].pc = "pending" => tasks'[t].units[i].pc = "fund"
                /\ tasks[t].units[i].pc = "price"
                      => C25_ValidFundamentals(tasks[t].units[i].resp)]_vars

C25_PriceFetchedBesideExcluded ==
    \E t \in TaskIds : \E i, j \in 1..Len(tasks[t].units) :
        /\ tasks[t].units[i].pc = "done"
        /\ tasks[t].units[i].result # NoObject
        /\ tasks[t].units[i].result.macd_signal = "BULLISH"
        /\ tasks[t].units[j].pc = "done"
        /\ tasks[t].units[j].result = NoObject

\* C26: volume_surge is true exactly when the volume of the latest bar is more
\* than 1.5 times the average volume of the bars before it, and false without a
\* volume column or with fewer than 20 bars.
C26_WellFormed(frame) == frame.bars > 0 /\ frame.close /\ frame.volume # "text"

C26_SurgeOverEarlierBars(frame) ==
    /\ frame.volume # "absent"
    /\ frame.bars >= 20
    /\ 10 * VolumeOfBar(frame.volume, TRUE) > 15 * VolumeOfBar(frame.volume, FALSE)

C26_VolumeSurgeExcludesLatestBar ==
    (probe.op = "indicators" /\ C26_WellFormed(probe.frame))
        => (probe.result.volume_surge <=> C26_SurgeOverEarlierBars(probe.frame))

\* C27: with two bars or more the MACD is classified BULLISH_CROSSOVER when the
\* line is above the signal on the latest bar and was not on the bar before,
\* BEARISH_CROSSOVER in the mirrored case, and otherwise BULLISH only when the
\* line is strictly above the signal and BEARISH only when strictly below; with
\* fewer than two bars it is NEUTRAL.
C27_Classified(frame, macd_signal) ==
    LET last == MacdAgainstSignal(frame, 0)
        previous == MacdAgainstSignal(frame, 1)
    IN IF frame.bars < 2 THEN macd_signal = "NEUTRAL"
       ELSE /\ (last = "above" /\ previous # "above") => macd_signal = "BULLISH_CROSSOVER"
            /\ (last = "below" /\ previous # "below") => macd_signal = "BEARISH_CROSSOVER"
            /\ macd_signal = "BULLISH" => last = "above"
            /\ macd_signal = "BEARISH" => last = "below"

C27_MacdClassification ==
    (probe.op = "indicators" /\ probe.frame.bars > 0 /\ probe.frame.close
        /\ ~IndicatorRaises("volume", probe.frame))
        => C27_Classified(probe.frame, probe.result.macd_signal)

\* C30: once a default call of get_fundamentals for a symbol has succeeded,
\* every later default call for the symbol returns the same data and issues no
\* request to the provider, also for a symbol served in the standalone view only.
C30_IdempotentThroughCache ==
    (probe.op = "get_fundamentals" /\ probe.consolidated /\ probe.earlier # NoObject)
        => (probe.requests = 0 /\ probe.data = probe.earlier)

====
